---- MODULE Spec2Model ----
(***************************************************************************)
(* A model of the Termo (pt-BR word game) solver: solver.py's feedback     *)
(* evaluation (check_guess), the constraint solver class TermoSolverCSP    *)
(* and the session loop play_game, with the word-file loader load_words.   *)
(*                                                                         *)
(* A word is a sequence of code points, each a one-element string token.   *)
(* Python indexes from 0 and TLA+ sequences from 1: positions stored in    *)
(* the program's data (feedback tuples, the keys of green_letters and      *)
(* yellow_letters) keep Python's 0-based values, and word[index] of the    *)
(* source is word[index + 1] here.                                         *)
(***************************************************************************)
EXTENDS Integers, Sequences, FiniteSets, TLC

VARIABLES
    valid_words,     \* play_game: the set load_words returned
    secret_word,     \* play_game: the word choose_secret_word drew
    solver,          \* the TermoSolverCSP instance (a record of its fields)
    attempts_made,   \* play_game: the loop counter
    attempt_number,  \* the argument of the last get_next_guess call
    current_guess,   \* the guess last selected (or handed to check_guess)
    result,          \* the triple check_guess returned last
    output,          \* the warnings, errors and outcome lines printed so far
    pc               \* the position of the running code

vars == <<valid_words, secret_word, solver, attempts_made, attempt_number,
          current_guess, result, output, pc>>

(***************************************************************************)
(* Program constants.                                                      *)
(***************************************************************************)
WORD_LENGTH == 5
MAX_ATTEMPTS == 6

COLOR_GREEN == "\\033[92m"
COLOR_YELLOW == "\\033[93m"
COLOR_GRAY == "\\033[90m"
COLOR_RESET == "\\033[0m"

\* '...{}...'.format(x) of the three LETTER_*_FORMAT strings (USE_COLORS is True).
LETTER_ABSENT_FORMAT(x) == COLOR_GRAY \o x \o COLOR_RESET
LETTER_WRONG_POS_FORMAT(x) == COLOR_YELLOW \o x \o COLOR_RESET
LETTER_CORRECT_POS_FORMAT(x) == COLOR_GREEN \o x \o COLOR_RESET

(***************************************************************************)
(* Python values: None, dictionaries as functions, str methods.            *)
(***************************************************************************)
None == <<>>

EmptyDict == <<>>

\* f(arg) as Python calls it: the argument is evaluated once, before the
\* call, and the callee receives its value.
CallByValue(f(_), arg) == CHOOSE r \in {f(v) : v \in {arg}} : TRUE

\* d.get(k, default)
DictGet(d, k, default) == IF k \in DOMAIN d THEN d[k] ELSE default

\* d[k] = v
DictSet(d, k, v) == [x \in (DOMAIN d) \cup {k} |-> IF x = k THEN v ELSE d[x]]

LowerCase == <<"a", "b", "c", "d", "e", "f", "g", "h", "i", "j", "k", "l", "m",
               "n", "o", "p", "q", "r", "s", "t", "u", "v", "w", "x", "y", "z">>

UpperCase == <<"A", "B", "C", "D", "E", "F", "G", "H", "I", "J", "K", "L", "M",
               "N", "O", "P", "Q", "R", "S", "T", "U", "V", "W", "X", "Y", "Z">>

\* The code points outside a-z and A-Z that the modelled word files hold,
\* named by their Unicode numbers: the precomposed letters a-acute, a-tilde
\* and c-cedilla (lower and upper case), the combining marks they decompose
\* to, and white space.
AccentedLower == <<"U+00E1", "U+00E3", "U+00E7">>
AccentedUpper == <<"U+00C1", "U+00C3", "U+00C7">>
AccentedBase == <<"a", "a", "c">>
AccentedMark == <<"U+0301", "U+0303", "U+0327">>
CombiningMarks == {"U+0301", "U+0303", "U+0327"}
WhiteSpace == {" ", "\n"}

IndexIn(seq, c) == CHOOSE i \in 1..Len(seq) : seq[i] = c

InSeq(seq, c) == \E i \in 1..Len(seq) : seq[i] = c

\* ord(c) - ord('a') for the code points whose value the model gives: the
\* letters a-z map to 0..25 and every other code point falls outside 0..25.
OrdMinusA(c) == IF InSeq(LowerCase, c) THEN IndexIn(LowerCase, c) - 1 ELSE 0 - 1

\* c.upper() and c.lower() of one code point
Upper(c) ==
    IF InSeq(LowerCase, c) THEN UpperCase[IndexIn(LowerCase, c)]
    ELSE IF InSeq(AccentedLower, c) THEN AccentedUpper[IndexIn(AccentedLower, c)]
    ELSE c

Lower(c) ==
    IF InSeq(UpperCase, c) THEN LowerCase[IndexIn(UpperCase, c)]
    ELSE IF InSeq(AccentedUpper, c) THEN AccentedLower[IndexIn(AccentedUpper, c)]
    ELSE c

\* text.lower()
LowerText(text) == [i \in 1..Len(text) |-> Lower(text[i])]

RECURSIVE LStrip(_)
LStrip(text) ==
    IF text # <<>> /\ Head(text) \in WhiteSpace THEN LStrip(Tail(text)) ELSE text

RECURSIVE RStrip(_)
RStrip(text) ==
    IF text # <<>> /\ text[Len(text)] \in WhiteSpace
    THEN RStrip(SubSeq(text, 1, Len(text) - 1))
    ELSE text

\* text.strip()
Strip(text) == RStrip(LStrip(text))

\* unicodedata.normalize('NFKD', c) of one code point
NFKD(c) ==
    IF InSeq(AccentedLower, c)
    THEN <<AccentedBase[IndexIn(AccentedLower, c)], AccentedMark[IndexIn(AccentedLower, c)]>>
    ELSE IF InSeq(AccentedUpper, c)
    THEN <<Upper(AccentedBase[IndexIn(AccentedUpper, c)]), AccentedMark[IndexIn(AccentedUpper, c)]>>
    ELSE <<c>>

RECURSIVE Normalize(_)
Normalize(text) ==
    IF text = <<>> THEN <<>> ELSE NFKD(Head(text)) \o Normalize(Tail(text))

\* unicodedata.combining(c) is non-zero
Combining(c) == c \in CombiningMarks

remove_accents(text) == SelectSeq(Normalize(text), LAMBDA c : ~Combining(c))

\* The words load_words builds from the lines of an existing word file: the
\* lines whose stripped length is WORD_LENGTH, lower-cased, accents removed.
\* (A missing file, or one giving no word, ends the program before any
\* session starts.)
load_words(lines) ==
    {remove_accents(LowerText(Strip(lines[n]))) :
        n \in {m \in 1..Len(lines) : Len(Strip(lines[m])) = WORD_LENGTH}}

\* choose_secret_word: random.choice over the loaded words
choose_secret_word(words) == words

(***************************************************************************)
(* check_guess                                                             *)
(***************************************************************************)
\* A structured feedback tuple (letter, status, index) and its parts.
FbLetter(t) == t[1]
FbStatus(t) == t[2]
FbIndex(t) == t[3]

\* The letter counts of a word, built letter by letter from position i on.
RECURSIVE LetterCounts(_, _, _)
LetterCounts(word, i, counts) ==
    IF i >= Len(word) THEN counts
    ELSE CallByValue(LAMBDA next : LetterCounts(word, i + 1, next),
             DictSet(counts, word[i + 1], DictGet(counts, word[i + 1], 0) + 1))

\* " ".join(parts[i:]) for a non-empty list of strings
RECURSIVE JoinFrom(_, _)
JoinFrom(parts, i) ==
    IF i >= Len(parts) THEN parts[i]
    ELSE parts[i] \o " " \o JoinFrom(parts, i + 1)

\* " ".join(visual_feedback)
JoinSpace(parts) == IF Len(parts) = 0 THEN "" ELSE JoinFrom(parts, 1)

\* A variant of the first loop that leaves the remaining count of a matched
\* letter as it was.
RECURSIVE CheckGuessCorrectPassNoDecrement(_, _, _, _)
CheckGuessCorrectPassNoDecrement(guess, secret, i, st) ==
    IF i >= WORD_LENGTH THEN st
    ELSE LET guess_letter == guess[i + 1] IN
         IF guess_letter = secret[i + 1]
         THEN CallByValue(
                  LAMBDA next : CheckGuessCorrectPassNoDecrement(guess, secret, i + 1, next),
                  [st EXCEPT
                      !.visual_feedback[i + 1] = LETTER_CORRECT_POS_FORMAT(Upper(guess_letter)),
                      !.structured_feedback[i + 1] = <<guess_letter, "correct", i>>])
         ELSE CheckGuessCorrectPassNoDecrement(guess, secret, i + 1, st)

\* The first loop of check_guess: the exact matches.
RECURSIVE CheckGuessCorrectPass(_, _, _, _)
CheckGuessCorrectPass(guess, secret, i, st) ==
    IF i >= WORD_LENGTH THEN st
    ELSE LET guess_letter == guess[i + 1] IN
         IF guess_letter = secret[i + 1]
         THEN CallByValue(LAMBDA next : CheckGuessCorrectPass(guess, secret, i + 1, next),
                  [visual_feedback |->
                       [st.visual_feedback EXCEPT
                            ![i + 1] = LETTER_CORRECT_POS_FORMAT(Upper(guess_letter))],
                   structured_feedback |->
                       [st.structured_feedback EXCEPT
                            ![i + 1] = <<guess_letter, "correct", i>>],
                   secret_letter_counts |->
                       [st.secret_letter_counts EXCEPT ![guess_letter] = @ - 1]])
         ELSE CheckGuessCorrectPass(guess, secret, i + 1, st)

\* A variant of the second loop that marks a letter 'present' whenever the
\* secret holds it anywhere, without looking at the remaining count.
RECURSIVE CheckGuessPresentPassNaive(_, _, _, _)
CheckGuessPresentPassNaive(guess, secret, i, st) ==
    IF i >= WORD_LENGTH THEN st
    ELSE IF st.visual_feedback[i + 1] # "" THEN CheckGuessPresentPassNaive(guess, secret, i + 1, st)
    ELSE LET guess_letter == guess[i + 1] IN
         IF guess_letter \in DOMAIN st.secret_letter_counts
         THEN CallByValue(LAMBDA next : CheckGuessPresentPassNaive(guess, secret, i + 1, next),
                  [st EXCEPT
                      !.visual_feedback[i + 1] = LETTER_WRONG_POS_FORMAT(Upper(guess_letter)),
                      !.structured_feedback[i + 1] = <<guess_letter, "present", i>>])
         ELSE CallByValue(LAMBDA next : CheckGuessPresentPassNaive(guess, secret, i + 1, next),
                  [st EXCEPT
                      !.visual_feedback[i + 1] = LETTER_ABSENT_FORMAT(Upper(guess_letter)),
                      !.structured_feedback[i + 1] = <<guess_letter, "absent", i>>])

\* The second loop of check_guess: the positions the first left unmarked.
RECURSIVE CheckGuessPresentPass(_, _, _, _)
CheckGuessPresentPass(guess, secret, i, st) ==
    IF i >= WORD_LENGTH THEN st
    ELSE IF st.visual_feedback[i + 1] # "" THEN CheckGuessPresentPass(guess, secret, i + 1, st)
    ELSE LET guess_letter == guess[i + 1] IN
         IF guess_letter \in DOMAIN st.secret_letter_counts
            /\ st.secret_letter_counts[guess_letter] > 0
         THEN CallByValue(LAMBDA next : CheckGuessPresentPass(guess, secret, i + 1, next),
                  [visual_feedback |->
                       [st.visual_feedback EXCEPT
                            ![i + 1] = LETTER_WRONG_POS_FORMAT(Upper(guess_letter))],
                   structured_feedback |->
                       [st.structured_feedback EXCEPT
                            ![i + 1] = <<guess_letter, "present", i>>],
                   secret_letter_counts |->
                       [st.secret_letter_counts EXCEPT ![guess_letter] = @ - 1]])
         ELSE CallByValue(LAMBDA next : CheckGuessPresentPass(guess, secret, i + 1, next),
                  [st EXCEPT
                      !.visual_feedback[i + 1] = LETTER_ABSENT_FORMAT(Upper(guess_letter)),
                      !.structured_feedback[i + 1] = <<guess_letter, "absent", i>>])

\* check_guess(guess, secret_word): (visual_feedback_str, is_correct,
\* structured_feedback_list)
check_guess(guess, secret) ==
    IF Len(guess) # WORD_LENGTH \/ Len(secret) # WORD_LENGTH
    THEN [visual |-> "Internal error: Invalid length",
          is_correct |-> FALSE,
          structured |-> <<>>]
    ELSE IF guess = secret
    THEN [visual |-> JoinSpace([i \in 1..WORD_LENGTH |->
                         LETTER_CORRECT_POS_FORMAT(Upper(guess[i]))]),
          is_correct |-> TRUE,
          structured |-> [i \in 1..WORD_LENGTH |-> <<guess[i], "correct", i - 1>>]]
    ELSE LET st0 == [visual_feedback |-> [i \in 1..WORD_LENGTH |-> ""],
                     structured_feedback |-> [i \in 1..WORD_LENGTH |-> None],
                     secret_letter_counts |-> LetterCounts(secret, 0, EmptyDict)]
             SecondLoop(st1) == CheckGuessPresentPass(guess, secret, 0, st1)
             Return(st2) == [visual |-> JoinSpace(st2.visual_feedback),
                             is_correct |-> FALSE,
                             structured |-> st2.structured_feedback]
         IN CallByValue(Return,
                CallByValue(SecondLoop, CheckGuessCorrectPass(guess, secret, 0, st0)))

(***************************************************************************)
(* class TermoSolverCSP                                                    *)
(***************************************************************************)
\* __init__(valid_words, word_length)
TermoSolverCSP(words, length) ==
    [all_valid_words |-> words,
     possible_words |-> words,
     word_length |-> length,
     guesses_history |-> <<>>,
     feedback_history |-> <<>>,
     green_letters |-> EmptyDict,
     yellow_letters |-> EmptyDict,
     gray_letters |-> {},
     min_letter_counts |-> EmptyDict]

\* A variant of the status branches in which a 'present' letter replaces the
\* set of its position instead of joining it.
UpdateForTupleYellowReplaced(fb, t, st) ==
    LET letter == FbLetter(t)
        status == FbStatus(t)
        index == FbIndex(t)
        self == st.self
        counted == DictSet(st.current_positive_counts, letter,
                           DictGet(st.current_positive_counts, letter, 0) + 1)
    IN CASE status = "correct" ->
              [self |-> [self EXCEPT !.green_letters = DictSet(@, index, letter)],
               current_positive_counts |-> counted]
         [] status = "present" ->
              [self |-> [self EXCEPT !.yellow_letters = DictSet(@, index, {letter})],
               current_positive_counts |-> counted]
         [] status = "absent" ->
              IF ~\E n \in 1..Len(fb) :
                     /\ FbLetter(fb[n]) = letter
                     /\ FbStatus(fb[n]) \in {"correct", "present"}
              THEN [st EXCEPT !.self.gray_letters = @ \cup {letter}]
              ELSE st
         [] OTHER -> st

\* A variant of the status branches in which every 'absent' letter becomes
\* gray, whatever its other marks in the feedback.
UpdateForTupleAbsentIsGray(fb, t, st) ==
    LET letter == FbLetter(t)
        status == FbStatus(t)
        index == FbIndex(t)
        self == st.self
        counted == DictSet(st.current_positive_counts, letter,
                           DictGet(st.current_positive_counts, letter, 0) + 1)
    IN CASE status = "correct" ->
              [self |-> [self EXCEPT !.green_letters = DictSet(@, index, letter)],
               current_positive_counts |-> counted]
         [] status = "present" ->
              [self |-> [self EXCEPT
                   !.yellow_letters =
                       DictSet(@, index, DictGet(@, index, {}) \cup {letter})],
               current_positive_counts |-> counted]
         [] status = "absent" ->
              [st EXCEPT !.self.gray_letters = @ \cup {letter}]
         [] OTHER -> st

\* The status branches of _update_constraints for one feedback tuple t of
\* the feedback fb; st holds the solver and current_positive_counts.
UpdateForTuple(fb, t, st) ==
    LET letter == FbLetter(t)
        status == FbStatus(t)
        index == FbIndex(t)
        self == st.self
        counted == DictSet(st.current_positive_counts, letter,
                           DictGet(st.current_positive_counts, letter, 0) + 1)
    IN CASE status = "correct" ->
              [self |-> [self EXCEPT
                   !.green_letters = DictSet(@, index, letter),
                   !.yellow_letters =
                       IF index \in DOMAIN @
                       THEN [@ EXCEPT ![index] = @ \ {letter}]
                       ELSE @],
               current_positive_counts |-> counted]
         [] status = "present" ->
              [self |-> [self EXCEPT
                   !.yellow_letters =
                       DictSet(@, index, DictGet(@, index, {}) \cup {letter})],
               current_positive_counts |-> counted]
         [] status = "absent" ->
              LET is_globally_absent ==
                      ~\E n \in 1..Len(fb) :
                          /\ FbLetter(fb[n]) = letter
                          /\ FbStatus(fb[n]) \in {"correct", "present"}
              IN IF is_globally_absent
                 THEN [st EXCEPT !.self.gray_letters = @ \cup {letter}]
                 ELSE st
         [] OTHER -> st

\* The loop of _update_constraints over structured_feedback, from tuple n on.
RECURSIVE UpdateLoop(_, _, _)
UpdateLoop(fb, n, st) ==
    IF n > Len(fb) THEN st
    ELSE CallByValue(LAMBDA next : UpdateLoop(fb, n + 1, next),
                     UpdateForTuple(fb, fb[n], st))

\* A variant that takes the smaller of the two counts.
RaisedMinCountUsingMin(old, count) == IF old <= count THEN old ELSE count

\* max(self.min_letter_counts.get(letter, 0), count)
RaisedMinCount(old, count) == IF old >= count THEN old ELSE count

\* _update_constraints(guess, structured_feedback): the solver after it.
_update_constraints(self, guess, fb) ==
    LET RaiseMinCounts(st) ==
            LET positive == st.current_positive_counts
                old == st.self.min_letter_counts
            IN [st.self EXCEPT
                   !.min_letter_counts =
                       [letter \in (DOMAIN old) \cup (DOMAIN positive) |->
                           IF letter \in DOMAIN positive
                           THEN RaisedMinCount(DictGet(old, letter, 0), positive[letter])
                           ELSE old[letter]]]
    IN CallByValue(RaiseMinCounts,
           UpdateLoop(fb, 1, [self |-> self, current_positive_counts |-> EmptyDict]))

\* letter in word
InWord(letter, word) == \E i \in 1..Len(word) : word[i] = letter

\* The first loop of _is_consistent's history scan for one (guess,
\* structured_feedback) pair: the tallies after positions i, i+1, ...
RECURSIVE HistoryTally(_, _, _, _, _)
HistoryTally(guess, fb, length, i, st) ==
    IF i >= length THEN st
    ELSE LET letter == guess[i + 1]
             status == FbStatus(fb[i + 1])
             positive == status = "correct" \/ status = "present"
         IN CallByValue(LAMBDA tally : HistoryTally(guess, fb, length, i + 1, tally),
                [guess_counts |->
                     DictSet(st.guess_counts, letter, DictGet(st.guess_counts, letter, 0) + 1),
                 positive_counts |->
                     IF positive
                     THEN DictSet(st.positive_counts, letter,
                                  DictGet(st.positive_counts, letter, 0) + 1)
                     ELSE st.positive_counts,
                 has_gray |->
                     IF status = "absent"
                     THEN DictSet(st.has_gray, letter, TRUE)
                     ELSE st.has_gray])

\* A variant of the exact-count test that compares the word's count with
\* the letter's count in the guess instead of its positive count.
ExactCountRejectsByGuessCount(word, word_counts, tally) ==
    \E letter \in DOMAIN tally.guess_counts :
        /\ DictGet(tally.has_gray, letter, FALSE)
        /\ InWord(letter, word)
        /\ DictGet(word_counts, letter, 0) # DictGet(tally.guess_counts, letter, 0)

\* Whether the exact-count test of one history pair rejects the word.
ExactCountRejects(word, word_counts, tally) ==
    \E letter \in DOMAIN tally.guess_counts :
        /\ DictGet(tally.has_gray, letter, FALSE)
        /\ InWord(letter, word)
        /\ DictGet(word_counts, letter, 0) # DictGet(tally.positive_counts, letter, 0)

\* The history scan of _is_consistent from pair n on: "True", "False", or
\* "IndexError" when guess[i] or structured_feedback[i] is read past the end.
RECURSIVE HistoryScan(_, _, _, _)
HistoryScan(self, word, word_counts, n) ==
    IF n > Len(self.guesses_history) \/ n > Len(self.feedback_history) THEN "True"
    ELSE LET guess == self.guesses_history[n]
             fb == self.feedback_history[n]
         IN IF Len(guess) < self.word_length \/ Len(fb) < self.word_length
            THEN "IndexError"
            ELSE IF CallByValue(LAMBDA tally : ExactCountRejects(word, word_counts, tally),
                        HistoryTally(guess, fb, self.word_length, 0,
                            [guess_counts |-> EmptyDict,
                             positive_counts |-> EmptyDict,
                             has_gray |-> EmptyDict]))
            THEN "False"
            ELSE HistoryScan(self, word, word_counts, n + 1)

GreenRejects(self, word) ==
    \E index \in DOMAIN self.green_letters :
        index >= Len(word) \/ word[index + 1] # self.green_letters[index]

\* A variant of the yellow check that asks only that the word hold every
\* yellow letter somewhere.
YellowRejectsMissingLetter(self, word) ==
    \E index \in DOMAIN self.yellow_letters :
        \E letter \in self.yellow_letters[index] : ~InWord(letter, word)

YellowRejects(self, word) ==
    \E index \in DOMAIN self.yellow_letters :
        index < Len(word) /\ word[index + 1] \in self.yellow_letters[index]

GrayRejects(self, word) ==
    \E letter \in self.gray_letters :
        InWord(letter, word) /\ letter \notin DOMAIN self.min_letter_counts

MinCountRejects(self, word, word_counts) ==
    \E letter \in DOMAIN self.min_letter_counts :
        DictGet(word_counts, letter, 0) < self.min_letter_counts[letter]

\* How _is_consistent(word) ends: "True", "False" or "IndexError".
IsConsistentOutcome(self, word) ==
    LET Checks(word_counts) ==
            IF GreenRejects(self, word) THEN "False"
            ELSE IF YellowRejects(self, word) THEN "False"
            ELSE IF GrayRejects(self, word) THEN "False"
            ELSE IF MinCountRejects(self, word, word_counts) THEN "False"
            ELSE HistoryScan(self, word, word_counts, 1)
    IN CallByValue(Checks, LetterCounts(word, 0, EmptyDict))

_is_consistent(self, word) == IsConsistentOutcome(self, word) = "True"

\* A variant of the filter that falls back to the full word list when no
\* candidate is left.
FilterWordsOrReset(self, candidates) ==
    IF {word \in candidates : IsConsistentOutcome(self, word) = "True"} = {}
    THEN self.all_valid_words
    ELSE {word \in candidates : IsConsistentOutcome(self, word) = "True"}

\* The set comprehension of add_feedback over the candidate set.
FilterWords(self, candidates) == {word \in candidates : _is_consistent(self, word)}

\* A variant of add_feedback that filters the candidates before it updates
\* the constraints.
AddFeedbackFilterFirst(self, guess, fb) ==
    LET appended == [self EXCEPT !.guesses_history = Append(@, guess),
                                 !.feedback_history = Append(@, fb)]
        filtered == {word \in self.possible_words : IsConsistentOutcome(self, word) = "True"}
    IN [self |-> [_update_constraints(appended, guess, fb) EXCEPT
                     !.possible_words = filtered],
        exception |-> "None"]

\* add_feedback(guess, structured_feedback): the solver after the call and
\* the exception that ended it ("None" when it returned).  An IndexError
\* raised by _is_consistent leaves possible_words as it was.
add_feedback(self, guess, fb) ==
    LET appended == [self EXCEPT !.guesses_history = Append(@, guess),
                                 !.feedback_history = Append(@, fb)]
        Filtered(updated) ==
            IF \E word \in updated.possible_words :
                   IsConsistentOutcome(updated, word) = "IndexError"
            THEN [self |-> updated, exception |-> "IndexError"]
            ELSE [self |-> [updated EXCEPT
                               !.possible_words = FilterWords(updated, updated.possible_words)],
                  exception |-> "None"]
    IN CallByValue(Filtered, _update_constraints(appended, guess, fb))

acelo == <<"a", "c", "e", "l", "o">>
sumir == <<"s", "u", "m", "i", "r">>

\* tuple(ord(c) - ord('a') for c in word)
WordTuple(word) == [i \in 1..Len(word) |-> OrdMinusA(word[i])]

\* "".join(chr(idx + ord('a')) for idx in solution_indices)
TupleWord(indices) == [i \in 1..Len(indices) |-> LowerCase[indices[i] + 1]]

\* The solutions of the CP-SAT model: the allowed tuples whose values lie in
\* the variables' domain 0..25.
CpSolutions(allowed_tuples) ==
    {t \in allowed_tuples : \A i \in 1..Len(t) : t[i] \in 0..25}

MsgNoPossibleWords == "Error: No possible words remaining! Check secret word."
MsgNoAllowedTuples == "Error: allowed_tuples set is empty for OR-Tools."
MsgOrToolsSuggested == "Debug: OR-Tools suggested"
MsgOrToolsFailed == "Warning: OR-Tools did not find a consistent solution. Using random choice."

\* A variant of get_next_guess that draws every guess after the opening from
\* the full word list.
GetNextGuessFromAllWords(self, attempt) ==
    IF attempt = 0 THEN {[guess |-> acelo, printed |-> <<>>]}
    ELSE IF attempt = 1 THEN {[guess |-> sumir, printed |-> <<>>]}
    ELSE IF self.possible_words = {}
    THEN {[guess |-> w, printed |-> <<MsgNoPossibleWords>>] : w \in self.all_valid_words}
    ELSE {[guess |-> w, printed |-> <<>>] : w \in self.all_valid_words}

\* A variant of get_next_guess that answers an empty candidate set with the
\* first opening word, and prints nothing.
GetNextGuessOpeningOnEmpty(self, attempt) ==
    IF attempt = 0 \/ self.possible_words = {} THEN {[guess |-> acelo, printed |-> <<>>]}
    ELSE IF attempt = 1 THEN {[guess |-> sumir, printed |-> <<>>]}
    ELSE {[guess |-> w, printed |-> <<>>] : w \in self.possible_words}

\* A variant of get_next_guess that looks at the candidate set before it
\* looks at the attempt number.
GetNextGuessEmptyFirst(self, attempt) ==
    IF self.possible_words = {}
    THEN {[guess |-> w, printed |-> <<MsgNoPossibleWords>>] : w \in self.all_valid_words}
    ELSE IF attempt = 0 THEN {[guess |-> acelo, printed |-> <<>>]}
    ELSE IF attempt = 1 THEN {[guess |-> sumir, printed |-> <<>>]}
    ELSE {[guess |-> w, printed |-> <<>>] : w \in self.possible_words}

\* get_next_guess(attempt_number): the (guess, printed lines) pairs the call
\* may end with; random.choice and the CP-SAT solver pick any member.
get_next_guess(self, attempt) ==
    IF attempt = 0 THEN {[guess |-> acelo, printed |-> <<>>]}
    ELSE IF attempt = 1 THEN {[guess |-> sumir, printed |-> <<>>]}
    ELSE IF self.possible_words = {}
    THEN {[guess |-> w, printed |-> <<MsgNoPossibleWords>>] : w \in self.all_valid_words}
    ELSE IF Cardinality(self.possible_words) = 1
    THEN {[guess |-> w, printed |-> <<>>] : w \in self.possible_words}
    ELSE LET allowed_tuples ==
                 {WordTuple(word) :
                     word \in {w \in self.possible_words : Len(w) = self.word_length}}
         IN IF allowed_tuples = {}
            THEN {[guess |-> w, printed |-> <<MsgNoAllowedTuples>>] :
                     w \in self.possible_words}
            ELSE IF CpSolutions(allowed_tuples) # {}
            THEN {[guess |-> TupleWord(t), printed |-> <<MsgOrToolsSuggested>>] :
                     t \in CpSolutions(allowed_tuples)}
            ELSE {[guess |-> w, printed |-> <<MsgOrToolsFailed>>] :
                     w \in self.possible_words}

(***************************************************************************)
(* The words and word files of the model.                                  *)
(***************************************************************************)
bater == <<"b", "a", "t", "e", "r">>
carta == <<"c", "a", "r", "t", "a">>
porta == <<"p", "o", "r", "t", "a">>
festa == <<"f", "e", "s", "t", "a">>
manta == <<"m", "a", "n", "t", "a">>
carro == <<"c", "a", "r", "r", "o">>
corra == <<"c", "o", "r", "r", "a">>
roraz == <<"r", "o", "r", "a", "z">>
orrra == <<"o", "r", "r", "r", "a">>
acaro == <<"a", "c", "a", "r", "o">>
surra == <<"s", "u", "r", "r", "a">>
acrro == <<"a", "c", "r", "r", "o">>
cafe == <<"c", "a", "f", "e">>

\* One line of a word file: the text and its line break.
Line(text) == text \o <<"\n">>

\* palavras_5letras.txt as the five-word corpus of the end-to-end scenario,
\* with a capital letter, a repeated word and two lines of other lengths.
FileScenario ==
    <<Line(<<"B", "a", "t", "e", "r">>), Line(carta), Line(porta), Line(festa),
      Line(<<"m", "a", "r">>), Line(manta), Line(porta),
      Line(<<"c", "a", "r", "t", "a", "s">>)>>

\* A file that holds both opening words, and a precomposed accented letter.
FileProbes ==
    <<Line(acelo), Line(sumir), Line(<<"U+00E1", "c", "a", "r", "o">>),
      Line(carro), Line(corra), Line(surra)>>

\* Seven words that differ in their first letter only: a wrong guess tells
\* nothing about the others.
FileRhymes ==
    <<Line(bater), Line(<<"c", "a", "t", "e", "r">>), Line(<<"d", "a", "t", "e", "r">>),
      Line(<<"f", "a", "t", "e", "r">>), Line(<<"g", "a", "t", "e", "r">>),
      Line(<<"h", "a", "t", "e", "r">>), Line(<<"j", "a", "t", "e", "r">>)>>

\* A file with a line of five code points whose accent is a combining mark
\* (c a f e U+0301): remove_accents leaves the four letters of cafe.
FileDecomposed ==
    <<Line(<<"c", "a", "f", "e", "U+0301">>), Line(carta), Line(porta)>>

WordFiles == {FileScenario, FileProbes, FileRhymes, FileDecomposed}

NoResult == [visual |-> "", is_correct |-> FALSE, structured |-> <<>>]

(***************************************************************************)
(* play_game: one session.                                                 *)
(***************************************************************************)
MsgInvalidWord == "Warning: Solver generated an invalid word. Check logic."
MsgRecovery == "Recovery: Trying another possible word"
MsgNoRecovery == "Critical Error: No more possible words for recovery."
MsgGuessed == "SOLVER GUESSED THE WORD!"
MsgUsedAll == "Solver used all attempts!"
MsgTraceback == "Traceback (most recent call last): IndexError: list index out of range"

\* The state when the while loop is first reached: the words loaded, the
\* secret drawn, the solver constructed.
Init ==
    \E file \in WordFiles :
        \E secret \in choose_secret_word(load_words(file)) :
            /\ valid_words = load_words(file)
            /\ secret_word = secret
            /\ solver = TermoSolverCSP(load_words(file), WORD_LENGTH)
            /\ attempts_made = 0
            /\ attempt_number = 0 - 1
            /\ current_guess = <<>>
            /\ result = NoResult
            /\ output = <<>>
            /\ pc = "while"

\* A variant of the iteration's top whose recovery draws from the whole word
\* list instead of the candidate set.
SelectGuessRecoverFromAllWords ==
    /\ pc = "while"
    /\ attempts_made < MAX_ATTEMPTS
    /\ attempt_number' = attempts_made
    /\ \E r \in get_next_guess(solver, attempts_made) :
           IF r.guess \in valid_words
           THEN /\ current_guess' = r.guess
                /\ output' = output \o r.printed
                /\ pc' = "check"
           ELSE \E w \in valid_words :
                    /\ current_guess' = w
                    /\ output' = output \o r.printed \o <<MsgInvalidWord, MsgRecovery>>
                    /\ pc' = "check"
    /\ UNCHANGED <<valid_words, secret_word, solver, attempts_made, result>>

\* A variant of the iteration's top that takes the word it settles on out
\* of the candidate set.
SelectGuessTakesCandidate ==
    /\ pc = "while"
    /\ attempts_made < MAX_ATTEMPTS
    /\ attempt_number' = attempts_made
    /\ \E r \in get_next_guess(solver, attempts_made) :
           IF r.guess \in valid_words
           THEN /\ current_guess' = r.guess
                /\ output' = output \o r.printed
                /\ pc' = "check"
           ELSE \E w \in solver.possible_words :
                    /\ current_guess' = w
                    /\ output' = output \o r.printed \o <<MsgInvalidWord, MsgRecovery>>
                    /\ pc' = "check"
    /\ solver' = [solver EXCEPT !.possible_words = @ \ {current_guess'}]
    /\ UNCHANGED <<valid_words, secret_word, attempts_made, result>>

\* A variant of the iteration's top without the check that the guess is a
\* word of the file.
SelectGuessUnchecked ==
    /\ pc = "while"
    /\ attempts_made < MAX_ATTEMPTS
    /\ attempt_number' = attempts_made
    /\ \E r \in get_next_guess(solver, attempts_made) :
           /\ current_guess' = r.guess
           /\ output' = output \o r.printed
           /\ pc' = "check"
    /\ UNCHANGED <<valid_words, secret_word, solver, attempts_made, result>>

\* The top of one loop iteration: get_next_guess, and the check that the
\* guess is a word of the file, with its recovery or its break.
SelectGuess ==
    /\ pc = "while"
    /\ attempts_made < MAX_ATTEMPTS
    /\ attempt_number' = attempts_made
    /\ \E r \in get_next_guess(solver, attempts_made) :
           IF r.guess \in valid_words
           THEN /\ current_guess' = r.guess
                /\ output' = output \o r.printed
                /\ pc' = "check"
           ELSE IF solver.possible_words # {}
           THEN \E w \in solver.possible_words :
                    /\ current_guess' = w
                    /\ output' = output \o r.printed \o <<MsgInvalidWord, MsgRecovery>>
                    /\ pc' = "check"
           ELSE /\ current_guess' = r.guess
                /\ output' = output \o r.printed
                                 \o <<MsgInvalidWord, MsgNoRecovery, MsgUsedAll>>
                /\ pc' = "lost"
    /\ UNCHANGED <<valid_words, secret_word, solver, attempts_made, result>>

\* The rest of the iteration: check_guess, add_feedback, and the return on
\* a correct guess or the increment of attempts_made.  An exception raised
\* in add_feedback is not caught anywhere: the program ends with it.
EvaluateGuess ==
    /\ pc = "check"
    /\ \E res \in {check_guess(current_guess, secret_word)} :
           \E fed \in {add_feedback(solver, current_guess, res.structured)} :
               /\ result' = res
               /\ solver' = fed.self
               /\ IF fed.exception # "None"
                  THEN /\ pc' = fed.exception
                       /\ output' = Append(output, MsgTraceback)
                       /\ UNCHANGED attempts_made
                  ELSE IF res.is_correct
                  THEN /\ pc' = "won"
                       /\ output' = Append(output, MsgGuessed)
                       /\ UNCHANGED attempts_made
                  ELSE /\ pc' = "while"
                       /\ attempts_made' = attempts_made + 1
                       /\ UNCHANGED output
    /\ UNCHANGED <<valid_words, secret_word, attempt_number, current_guess>>

\* The loop condition fails: the solver lost.
LoopExit ==
    /\ pc = "while"
    /\ attempts_made >= MAX_ATTEMPTS
    /\ pc' = "lost"
    /\ output' = Append(output, MsgUsedAll)
    /\ UNCHANGED <<valid_words, secret_word, solver, attempts_made, attempt_number,
                   current_guess, result>>

Next == SelectGuess \/ EvaluateGuess \/ LoopExit

Spec == Init /\ [][Next]_vars

\* The session as the interpreter runs it: play_game is straight-line code
\* in one thread, no step of it waits, so a step that can be taken is taken.
SpecLive == Init /\ [][Next]_vars /\ WF_vars(Next)

(***************************************************************************)
(* The solver class on its own: a caller that constructs a TermoSolverCSP  *)
(* over a set of five-letter words, feeds it check_guess's feedback for    *)
(* guesses of its choice against one secret, and asks for guesses.  The    *)
(* secret need not be a word of the set.                                   *)
(***************************************************************************)
MaxCalls == 2

SolverCorpora ==
    {{carro, corra, orrra, acaro, surra, porta, acrro, carta},
     {carro, corra, roraz, orrra}}

SolverSecrets == {carro, corra, acaro, surra, porta, orrra}

SolverGuesses == {carro, corra, roraz, orrra, acaro, porta}

InitSolver ==
    \E words \in SolverCorpora :
        \E secret \in SolverSecrets :
            /\ valid_words = words
            /\ secret_word = secret
            /\ solver = TermoSolverCSP(words, WORD_LENGTH)
            /\ attempts_made = 0
            /\ attempt_number = 0 - 1
            /\ current_guess = <<>>
            /\ result = NoResult
            /\ output = <<>>
            /\ pc = "constructed"

\* check_guess for a guess against the secret, then add_feedback with it.
CallAddFeedback ==
    /\ pc # "IndexError"
    /\ Len(solver.guesses_history) < MaxCalls
    /\ \E guess \in SolverGuesses :
           LET res == check_guess(guess, secret_word)
               fed == add_feedback(solver, guess, res.structured)
           IN /\ current_guess' = guess
              /\ result' = res
              /\ solver' = fed.self
              /\ pc' = IF fed.exception # "None" THEN fed.exception ELSE "add_feedback"
    /\ output' = <<>>
    /\ UNCHANGED <<valid_words, secret_word, attempts_made, attempt_number>>

\* get_next_guess with any attempt number.
CallGetNextGuess ==
    /\ pc # "IndexError"
    /\ \E attempt \in 0..(MAX_ATTEMPTS - 1) :
           \E r \in get_next_guess(solver, attempt) :
               /\ attempt_number' = attempt
               /\ current_guess' = r.guess
               /\ output' = r.printed
    /\ pc' = "get_next_guess"
    /\ UNCHANGED <<valid_words, secret_word, solver, attempts_made, result>>

NextSolver == CallAddFeedback \/ CallGetNextGuess

SpecSolver == InitSolver /\ [][NextSolver]_vars

(***************************************************************************)
(* check_guess on its own, over every pair of words of three letters and   *)
(* over words of other lengths.                                            *)
(***************************************************************************)
EvalLetters == {"a", "b", "c"}

EvalWords ==
    {<<l1, l2, l3, l4, l5>> : l1 \in EvalLetters, l2 \in EvalLetters, l3 \in EvalLetters,
                              l4 \in EvalLetters, l5 \in EvalLetters}
    \cup {<<>>, cafe, <<"a", "b", "c", "a", "b", "c">>}

InitEval ==
    \E guess \in EvalWords :
        \E secret \in EvalWords :
            /\ valid_words = {}
            /\ secret_word = secret
            /\ solver = TermoSolverCSP({}, WORD_LENGTH)
            /\ attempts_made = 0
            /\ attempt_number = 0 - 1
            /\ current_guess = guess
            /\ result = NoResult
            /\ output = <<>>
            /\ pc = "call"

CallCheckGuess ==
    /\ pc = "call"
    /\ result' = check_guess(current_guess, secret_word)
    /\ pc' = "returned"
    /\ UNCHANGED <<valid_words, secret_word, solver, attempts_made, attempt_number,
                   current_guess, output>>

NextEval == CallCheckGuess

SpecEval == InitEval /\ [][NextEval]_vars

(***************************************************************************)
(* Properties.                                                             *)
(***************************************************************************)
\* The number of positions of a word that hold the letter x.
Occurrences(word, x) == Cardinality({i \in 1..Len(word) : word[i] = x})

\* The number of tuples of a feedback that give the letter x a status of the set.
StatusCount(fb, x, statuses) ==
    Cardinality({n \in 1..Len(fb) : FbLetter(fb[n]) = x /\ FbStatus(fb[n]) \in statuses})

Positive == {"correct", "present"}

Minimum(a, b) == IF a <= b THEN a ELSE b

LettersOf(word) == {word[i] : i \in 1..Len(word)}

\* C1 (self-consistency): with the secret a word of the solver's corpus,
\* after any add_feedback calls made with check_guess's feedback for
\* five-letter guesses against it, _is_consistent accepts the secret and
\* the secret is still in possible_words.
C1_SelfConsistency ==
    secret_word \in solver.all_valid_words =>
        /\ _is_consistent(solver, secret_word)
        /\ secret_word \in solver.possible_words

\* C1's case: two wrong guesses were fed and the candidate set has shrunk.
C1_Witness ==
    /\ pc = "add_feedback"
    /\ secret_word \in solver.all_valid_words
    /\ Len(solver.guesses_history) >= 2
    /\ \A n \in 1..Len(solver.guesses_history) : solver.guesses_history[n] # secret_word
    /\ solver.possible_words # solver.all_valid_words

\* C2 (duplicate letters): check_guess on two five-letter words marks, for
\* every letter x of the guess, exactly min(count of x in the guess, count
\* of x in the secret) of x's positions 'correct' or 'present' and the
\* others 'absent'; each tuple carries its position and the guess's letter.
C2_DuplicateLetters ==
    (pc = "returned" /\ Len(current_guess) = WORD_LENGTH /\ Len(secret_word) = WORD_LENGTH) =>
        /\ Len(result.structured) = WORD_LENGTH
        /\ \A i \in 1..WORD_LENGTH :
               /\ FbLetter(result.structured[i]) = current_guess[i]
               /\ FbIndex(result.structured[i]) = i - 1
               /\ FbStatus(result.structured[i]) \in Positive \cup {"absent"}
        /\ \A x \in LettersOf(current_guess) :
               /\ StatusCount(result.structured, x, Positive)
                      = Minimum(Occurrences(current_guess, x), Occurrences(secret_word, x))
               /\ StatusCount(result.structured, x, Positive) <= Occurrences(secret_word, x)

\* C2's case: a letter the guess holds more often than the secret, with a
\* 'correct', a 'present' and an 'absent' occurrence.
C2_Witness ==
    /\ pc = "returned"
    /\ Len(result.structured) = WORD_LENGTH
    /\ \E x \in LettersOf(current_guess) :
           /\ Occurrences(current_guess, x) > Occurrences(secret_word, x)
           /\ StatusCount(result.structured, x, {"correct"}) >= 1
           /\ StatusCount(result.structured, x, {"present"}) >= 1
           /\ StatusCount(result.structured, x, {"absent"}) >= 1

\* C3: possible_words is exactly the set of words of all_valid_words that
\* _is_consistent accepts under the solver's current constraints.
C3_CandidatesAreConsistentWords ==
    solver.possible_words = {w \in solver.all_valid_words : _is_consistent(solver, w)}

\* C3's case: a second add_feedback filtered a set the first had already cut.
C3_Witness ==
    /\ pc = "add_feedback"
    /\ Len(solver.guesses_history) >= 2
    /\ solver.possible_words # {}
    /\ solver.possible_words # solver.all_valid_words
    /\ \E w \in solver.all_valid_words \ solver.possible_words :
           _is_consistent(
               _update_constraints(TermoSolverCSP(solver.all_valid_words, WORD_LENGTH),
                                   solver.guesses_history[2], solver.feedback_history[2]),
               w)

\* C4 (monotonic shrink): possible_words starts as the full corpus and no
\* step ever adds a word to it.
C4_MonotonicShrink ==
    /\ solver.possible_words = solver.all_valid_words
    /\ [][solver'.possible_words \subseteq solver.possible_words]_vars

\* C4's case: an add_feedback call has removed words, and not all of them.
C4_Witness ==
    /\ pc = "add_feedback"
    /\ solver.possible_words # {}
    /\ Cardinality(solver.possible_words) < Cardinality(solver.all_valid_words)

\* C5 (exact count): for every guess of the history that holds a letter x
\* more often than the secret does, that guess's 'correct' + 'present'
\* count of x is the secret's count of x, and every word of possible_words
\* holds x exactly that many times.
C5_ExactCountFiltering ==
    \A n \in 1..Len(solver.guesses_history) :
        \A x \in LettersOf(solver.guesses_history[n]) :
            Occurrences(solver.guesses_history[n], x) > Occurrences(secret_word, x) =>
                /\ StatusCount(solver.feedback_history[n], x, Positive)
                       = Occurrences(secret_word, x)
                /\ \A w \in solver.possible_words :
                       Occurrences(w, x) = StatusCount(solver.feedback_history[n], x, Positive)

\* C5's case: a guess over-guessed a letter the secret holds, candidates
\* remain, and a corpus word with more copies of the letter is gone.
C5_Witness ==
    /\ pc = "add_feedback"
    /\ solver.possible_words # {}
    /\ \E n \in 1..Len(solver.guesses_history) :
           \E x \in LettersOf(solver.guesses_history[n]) :
               /\ Occurrences(solver.guesses_history[n], x) > Occurrences(secret_word, x)
               /\ Occurrences(secret_word, x) >= 1
               /\ \E w \in solver.all_valid_words \ solver.possible_words :
                      Occurrences(w, x) > Occurrences(secret_word, x)

\* The scenario of C6: the secret is carro and roraz is the one guess fed.
CarroRoraz ==
    /\ pc = "add_feedback"
    /\ secret_word = carro
    /\ solver.guesses_history = <<roraz>>

\* C6 as stated: after add_feedback for the guess roraz against the secret
\* carro, every corpus word whose number of r's differs from the guess's
\* 'correct' + 'present' count of r is excluded from possible_words.
C6_ExactCountOnR ==
    CarroRoraz =>
        \A w \in solver.all_valid_words :
            Occurrences(w, "r") # StatusCount(solver.feedback_history[1], "r", Positive)
                => w \notin solver.possible_words

\* C6 as amended: both r's of roraz are marked 'correct' or 'present' and
\* none 'absent', so the only count constraint on r is the lower bound
\* min_letter_counts['r'] = 2: every corpus word with fewer than two r's is
\* excluded, and orrra, with three r's, is kept.
C6_MinCountOnR ==
    CarroRoraz =>
        /\ StatusCount(solver.feedback_history[1], "r", {"absent"}) = 0
        /\ StatusCount(solver.feedback_history[1], "r", Positive) = 2
        /\ DictGet(solver.min_letter_counts, "r", 0) = 2
        /\ \A w \in solver.all_valid_words :
               Occurrences(w, "r") < 2 => w \notin solver.possible_words
        /\ orrra \in solver.all_valid_words => orrra \in solver.possible_words

\* C6's case: the scenario, with orrra kept and carta (one r) excluded.
C6_Witness ==
    /\ CarroRoraz
    /\ orrra \in solver.possible_words
    /\ carta \in solver.all_valid_words \ solver.possible_words

\* C7 as stated: a check_guess call with a guess or a secret that is not
\* five letters long ends with the error outcome, and the step that makes
\* the call leaves the solver (its constraints, history and candidate set)
\* as it was.
C7_LengthMismatchLeavesSolver ==
    [][(pc = "check"
            /\ (Len(current_guess) # WORD_LENGTH \/ Len(secret_word) # WORD_LENGTH))
        => /\ result'.visual = "Internal error: Invalid length"
           /\ ~result'.is_correct
           /\ result'.structured = <<>>
           /\ solver' = solver]_vars

\* C8 as stated: at most MAX_ATTEMPTS guesses are evaluated, a guess equal
\* to the secret is the last one evaluated and ends the session as won, and
\* the session is in its loop until it ends as won or, with no guess equal
\* to the secret, as lost after the attempts are used up.
C8_SessionEnds ==
    /\ attempts_made <= MAX_ATTEMPTS
    /\ Len(solver.guesses_history) <= MAX_ATTEMPTS
    /\ \A n \in 1..Len(solver.guesses_history) :
           solver.guesses_history[n] = secret_word =>
               n = Len(solver.guesses_history) /\ pc = "won"
    /\ pc = "won" =>
           /\ solver.guesses_history # <<>>
           /\ solver.guesses_history[Len(solver.guesses_history)] = secret_word
    /\ pc = "lost" => Len(solver.guesses_history) = MAX_ATTEMPTS
    /\ pc \in {"while", "check", "won", "lost"}

\* C9: get_next_guess for an attempt number of 2 or more, with candidates
\* left, returns a member of possible_words (the only one when there is one).
C9_GuessIsCandidate ==
    (pc = "get_next_guess" /\ attempt_number >= 2 /\ solver.possible_words # {}) =>
        /\ current_guess \in solver.possible_words
        /\ Cardinality(solver.possible_words) = 1 => solver.possible_words = {current_guess}

\* C9's case: a call for attempt 2 or later after feedback, with several
\* candidates left of a corpus already cut.
C9_Witness ==
    /\ pc = "get_next_guess"
    /\ attempt_number >= 2
    /\ solver.guesses_history # <<>>
    /\ Cardinality(solver.possible_words) >= 2
    /\ solver.possible_words # solver.all_valid_words

\* C10: get_next_guess for an attempt number of 2 or more with no candidate
\* left returns a word of all_valid_words and prints the error line, which
\* no call with candidates left prints; the word is one of the session's
\* words, so the session loop goes on to evaluate it.
C10_EmptyCandidateSet ==
    (pc = "get_next_guess" /\ attempt_number >= 2) =>
        IF solver.possible_words = {}
        THEN /\ current_guess \in solver.all_valid_words
             /\ output = <<MsgNoPossibleWords>>
             /\ current_guess \in valid_words
        ELSE \A n \in 1..Len(output) : output[n] # MsgNoPossibleWords

\* C10's case: a call for attempt 2 or later after feedback emptied the set.
C10_Witness ==
    /\ pc = "get_next_guess"
    /\ attempt_number >= 2
    /\ solver.guesses_history # <<>>
    /\ solver.possible_words = {}

\* C11 (opening determinism): get_next_guess returns acelo for attempt 0 and
\* sumir for attempt 1 and prints nothing, whatever the corpus, the history,
\* the constraints and the candidate set are, an empty candidate set included.
C11_OpeningDeterminism ==
    pc = "get_next_guess" =>
        /\ attempt_number = 0 => current_guess = acelo /\ output = <<>>
        /\ attempt_number = 1 => current_guess = sumir /\ output = <<>>

\* C11's case: a call for attempt 1 on a solver whose feedback has emptied
\* the candidate set of a corpus that holds neither opening word.
C11_Witness ==
    /\ pc = "get_next_guess"
    /\ attempt_number = 1
    /\ current_guess = sumir
    /\ solver.guesses_history # <<>>
    /\ solver.possible_words = {}
    /\ sumir \notin solver.all_valid_words

\* The session of C12: the five-word corpus and the secret porta.
ScenarioSession ==
    /\ valid_words = {bater, carta, porta, festa, manta}
    /\ secret_word = porta

IsPrefix(s, t) == Len(s) <= Len(t) /\ \A n \in 1..Len(s) : s[n] = t[n]

\* C13 (model monotonicity): every step keeps each green position with its
\* letter, keeps every letter of every yellow_letters[position] set, keeps
\* every gray letter, only appends to the two histories and lowers no
\* min_letter_counts entry; and the letter fixed at a position is never in
\* that position's yellow set, so the discard on 'correct' removes nothing.
C13_ModelMonotonicity ==
    /\ [][/\ \A i \in DOMAIN solver.green_letters :
                 /\ i \in DOMAIN solver'.green_letters
                 /\ solver'.green_letters[i] = solver.green_letters[i]
          /\ \A i \in DOMAIN solver.yellow_letters :
                 /\ i \in DOMAIN solver'.yellow_letters
                 /\ solver.yellow_letters[i] \subseteq solver'.yellow_letters[i]
          /\ solver.gray_letters \subseteq solver'.gray_letters
          /\ IsPrefix(solver.guesses_history, solver'.guesses_history)
          /\ IsPrefix(solver.feedback_history, solver'.feedback_history)
          /\ \A x \in DOMAIN solver.min_letter_counts :
                 /\ x \in DOMAIN solver'.min_letter_counts
                 /\ solver'.min_letter_counts[x] >= solver.min_letter_counts[x]]_vars
    /\ [](\A i \in (DOMAIN solver.green_letters) \cap (DOMAIN solver.yellow_letters) :
             solver.green_letters[i] \notin solver.yellow_letters[i])

\* C13's case: the second feedback marked 'correct' a position whose yellow
\* set the first had filled, and gave a letter fewer positive marks than
\* its min_letter_counts entry from the first.
C13_Witness ==
    /\ pc = "add_feedback"
    /\ Len(solver.feedback_history) = 2
    /\ \E i \in 1..WORD_LENGTH :
           /\ FbStatus(solver.feedback_history[1][i]) = "present"
           /\ FbStatus(solver.feedback_history[2][i]) = "correct"
           /\ solver.yellow_letters[i - 1] # {}
           /\ solver.green_letters[i - 1] = FbLetter(solver.feedback_history[2][i])
    /\ \E x \in DOMAIN solver.min_letter_counts :
           /\ StatusCount(solver.feedback_history[1], x, Positive) = 2
           /\ StatusCount(solver.feedback_history[2], x, Positive) = 1
           /\ solver.min_letter_counts[x] = 2
    /\ solver.gray_letters # {}

\* The tallies the history scan of _is_consistent makes of the n-th
\* (guess, feedback) pair of the history.
TallyOfPair(n) ==
    HistoryTally(solver.guesses_history[n], solver.feedback_history[n],
                 solver.word_length, 0,
                 [guess_counts |-> EmptyDict,
                  positive_counts |-> EmptyDict,
                  has_gray |-> EmptyDict])

\* Whether the scan derives an exact count for the letter x from pair n,
\* and the count it derives.
HasExactCount(n, x) == DictGet(TallyOfPair(n).has_gray, x, FALSE)

ExactCount(n, x) == DictGet(TallyOfPair(n).positive_counts, x, 0)

\* C14 (exact-count stability): every exact count the history scan derives
\* for a letter, from any pair of the history, is the number of times the
\* secret holds the letter; so the counts derived from two pairs agree.
C14_ExactCountStability ==
    \A n \in 1..Len(solver.guesses_history) :
        Len(solver.feedback_history[n]) = WORD_LENGTH =>
            \A x \in LettersOf(solver.guesses_history[n]) :
                HasExactCount(n, x) =>
                    /\ ExactCount(n, x) = Occurrences(secret_word, x)
                    /\ \A k \in 1..Len(solver.guesses_history) :
                           (Len(solver.feedback_history[k]) = WORD_LENGTH
                                /\ HasExactCount(k, x)) =>
                               ExactCount(k, x) = ExactCount(n, x)

\* C14's case: two different guesses of the history each hold, with an
\* 'absent' occurrence, a letter that the secret holds.
C14_Witness ==
    /\ pc = "add_feedback"
    /\ Len(solver.guesses_history) = 2
    /\ solver.guesses_history[1] # solver.guesses_history[2]
    /\ \E x \in LettersOf(secret_word) :
           /\ HasExactCount(1, x)
           /\ HasExactCount(2, x)
           /\ ExactCount(2, x) >= 1
           /\ Occurrences(solver.guesses_history[1], x)
                  # Occurrences(solver.guesses_history[2], x)

\* The number of attempts evaluated so far: the completed iterations, and
\* the one that ended the session with the guess evaluated.
EvaluatedAttempts == attempts_made + (IF pc \in {"won", "IndexError"} THEN 1 ELSE 0)

\* C15 (lifecycle and frame): the step that calls get_next_guess, and every
\* step other than the one that calls add_feedback, leaves the whole solver
\* as it was; the step that evaluates a guess appends exactly that guess
\* and its feedback to the histories; all_valid_words stays the word list;
\* and after n evaluated attempts both histories have length n.
C15_LifecycleFrame ==
    /\ [][/\ pc # "check" => solver' = solver
          /\ pc = "check" =>
                 /\ solver'.guesses_history = Append(solver.guesses_history, current_guess)
                 /\ solver'.feedback_history
                        = Append(solver.feedback_history, result'.structured)
          /\ solver'.all_valid_words = solver.all_valid_words]_vars
    /\ [](/\ solver.all_valid_words = valid_words
          /\ Len(solver.guesses_history) = EvaluatedAttempts
          /\ Len(solver.feedback_history) = EvaluatedAttempts)

\* C15's case: get_next_guess has returned the guess of the fourth attempt
\* of a session whose three evaluated attempts cut the candidate set.
C15_Witness ==
    /\ pc = "check"
    /\ attempt_number = 3
    /\ EvaluatedAttempts = 3
    /\ Len(solver.guesses_history) = 3
    /\ solver.possible_words # solver.all_valid_words
    /\ Cardinality(solver.possible_words) >= 2

\* The guesses fed so far are all wrong: the session is still going.
NoGuessIsSecret ==
    \A n \in 1..Len(solver.guesses_history) : solver.guesses_history[n] # secret_word

\* C16 (progress): no wrong guess of the history is left in possible_words;
\* with the secret in the word list and not yet guessed, get_next_guess for
\* an attempt of index 2 or more returns none of the guesses already fed;
\* and an add_feedback call for a wrong guess that was a candidate leaves
\* possible_words smaller than it was.
C16_WrongGuessIsRemoved ==
    /\ [](\A n \in 1..Len(solver.guesses_history) :
             solver.guesses_history[n] # secret_word =>
                 solver.guesses_history[n] \notin solver.possible_words)
    /\ []((pc = "get_next_guess" /\ attempt_number >= 2
              /\ secret_word \in solver.all_valid_words /\ NoGuessIsSecret) =>
             \A n \in 1..Len(solver.guesses_history) :
                 solver.guesses_history[n] # current_guess)
    /\ [][(Len(solver'.guesses_history) > Len(solver.guesses_history)
              /\ current_guess' # secret_word
              /\ current_guess' \in solver.possible_words) =>
             Cardinality(solver'.possible_words) < Cardinality(solver.possible_words)]_vars

\* C16's case: two wrong guesses were fed, the second a candidate the first
\* had left, and the secret and another word are still candidates.
C16_Witness ==
    /\ pc = "add_feedback"
    /\ Len(solver.guesses_history) = 2
    /\ NoGuessIsSecret
    /\ solver.guesses_history[2] \in
           add_feedback(TermoSolverCSP(solver.all_valid_words, WORD_LENGTH),
                        solver.guesses_history[1],
                        solver.feedback_history[1]).self.possible_words
    /\ secret_word \in solver.possible_words
    /\ Cardinality(solver.possible_words) >= 2

\* The last lines printed are those of a recovery: the guess at hand was
\* drawn in place of the word get_next_guess returned.
Recovered ==
    /\ Len(output) >= 2
    /\ output[Len(output) - 1] = MsgInvalidWord
    /\ output[Len(output)] = MsgRecovery

\* C17 (session guesses are corpus words): the guess handed to check_guess
\* and add_feedback, and so every guess of the history, is a word of the
\* file; a probe that is not such a word is replaced, and the replacement
\* is a member of possible_words; a session that stops for want of a
\* replacement has an empty possible_words and has evaluated no guess in
\* that attempt.  The last case needs possible_words empty when an opening
\* word is refused, and the secret, a word of the file, is always in it
\* while the loop runs: no session takes that branch.
C17_GuessesAreCorpusWords ==
    /\ pc = "check" => current_guess \in valid_words
    /\ \A n \in 1..Len(solver.guesses_history) : solver.guesses_history[n] \in valid_words
    /\ (pc = "check" /\ attempt_number = 0 /\ acelo \notin valid_words) => Recovered
    /\ (pc = "check" /\ attempt_number = 1 /\ sumir \notin valid_words) => Recovered
    /\ (pc = "check" /\ Recovered) => current_guess \in solver.possible_words
    /\ (pc = "lost" /\ InSeq(output, MsgNoRecovery)) =>
           /\ solver.possible_words = {}
           /\ Len(solver.guesses_history) = attempts_made
    /\ pc \in {"while", "check"} => secret_word \in solver.possible_words

\* C17's case: at attempt 1 the probe sumir, not a word of the file, was
\* replaced by a candidate left by the first feedback.
C17_Witness ==
    /\ pc = "check"
    /\ attempt_number = 1
    /\ sumir \notin valid_words
    /\ Recovered
    /\ current_guess \in solver.possible_words
    /\ solver.possible_words # valid_words
    /\ current_guess # secret_word

\* C18 (gray soundness): a step adds a letter to gray_letters only if the
\* feedback it appends marks the letter 'absent' and nowhere 'correct' or
\* 'present'; gray_letters holds no letter of the secret; and no gray
\* letter is a key of min_letter_counts, so the gray check of
\* _is_consistent rejects every word that holds a gray letter.
C18_GraySoundness ==
    /\ [][\A x \in solver'.gray_letters \ solver.gray_letters :
              /\ Len(solver'.feedback_history) = Len(solver.feedback_history) + 1
              /\ StatusCount(solver'.feedback_history[Len(solver'.feedback_history)],
                             x, {"absent"}) >= 1
              /\ StatusCount(solver'.feedback_history[Len(solver'.feedback_history)],
                             x, Positive) = 0]_vars
    /\ [](/\ solver.gray_letters \cap LettersOf(secret_word) = {}
          /\ solver.gray_letters \cap DOMAIN solver.min_letter_counts = {}
          /\ \A w \in solver.all_valid_words :
                 (solver.gray_letters \cap LettersOf(w) # {}) => GrayRejects(solver, w))

\* C18's case: a feedback of the history marks a letter 'absent' at one
\* position and 'correct' or 'present' at another, that letter is a key of
\* min_letter_counts and is not gray, and another letter is gray.
C18_Witness ==
    /\ pc = "add_feedback"
    /\ Len(solver.feedback_history) = 2
    /\ solver.gray_letters # {}
    /\ \E x \in DOMAIN solver.min_letter_counts :
           /\ StatusCount(solver.feedback_history[2], x, {"absent"}) >= 1
           /\ StatusCount(solver.feedback_history[2], x, Positive) >= 1
           /\ x \notin solver.gray_letters
    /\ \E w \in solver.all_valid_words : solver.gray_letters \cap LettersOf(w) # {}

====
